---- MODULE Spec2Model ----
(***************************************************************************)
(* A model of NanoParticleTools' machine-learning data layer:              *)
(*   - EnergyLabelProcessor / WavelengthLabelProcessor.process_doc         *)
(*     (machine_learning/models/_data.py), the spectrum rebinner;          *)
(*   - GraphFeatureProcessor (subdivision_invariance/dopant_pair.py), the  *)
(*     dopant-pair graph builder, and InteractionData, the rules by which  *)
(*     its graphs are concatenated into a batch;                           *)
(*   - UCNPAugmenter (machine_learning/models/_data.py), the template      *)
(*     augmenter.                                                          *)
(*                                                                         *)
(* Tensors are sequences.  Python positions are 0-based and TLA+ sequence  *)
(* positions are 1-based: position p of a tensor is element p+1 of the     *)
(* sequence; index VALUES (idx_zero, node_dopant_index, edge_index) keep   *)
(* their 0-based Python value.                                             *)
(*                                                                         *)
(* Floating-point values are exact rationals [num, den] in lowest terms    *)
(* with den > 0, so rounding error is not modelled.  The augmenter's radii  *)
(* are integers counting hundredths, so its 0.1 grid is a step of 10.      *)
(***************************************************************************)
EXTENDS Integers, Sequences, FiniteSets, TLC

VARIABLES
    spectrum_range,         \* label processor: self.spectrum_range
    output_size,            \* label processor: self.output_size
    gaussian_filter,        \* label processor: self.gaussian_filter (sigma)
    doc,                    \* the document handed to a label processor
    label,                  \* what process_doc returned or raised
    constraints,            \* graph builder input: shell radii, innermost first
    dopant_specifications,  \* graph builder input: (shell, x, element, site)
    graph,                  \* what GraphFeatureProcessor.process_doc returned or raised
    template,               \* augmenter input: constraints and dopant_specifications
    draws,                  \* the values self.rng returned during the call, per augment
    new_templates,          \* what the augmenter call returned or raised
    seeds,                  \* random_seed of each UCNPAugmenter instance
    rng,                    \* self.rng of each UCNPAugmenter instance
    history,                \* per instance, the calls made and what they returned
    data_list,              \* the graphs handed to the batching
    batch                   \* the concatenated graph

vars == <<spectrum_range, output_size, gaussian_filter, doc, label,
          constraints, dopant_specifications, graph,
          template, draws, new_templates, seeds, rng, history,
          data_list, batch>>

labelVars == <<spectrum_range, output_size, gaussian_filter, doc, label>>
graphVars == <<constraints, dopant_specifications, graph>>
augmentVars == <<template, draws, new_templates>>
seededVars == <<seeds, rng, history>>
batchVars == <<data_list, batch>>

---------------------------------------------------------------------------
(* Bounds of the model.                                                    *)

MaxLen == 4          \* longest spectrum (number of bins) in a document
MaxDopants == 3      \* longest dopant-specification list

---------------------------------------------------------------------------
(* Exact rational arithmetic standing for float tensors' elements.         *)

Abs(a) == IF a < 0 THEN -a ELSE a

RECURSIVE Gcd(_, _)
Gcd(a, b) == IF b = 0 THEN a ELSE Gcd(b, a % b)

Lcm(a, b) == IF a = 0 \/ b = 0 THEN 0 ELSE (a * b) \div Gcd(a, b)

Rat(n, d) ==
    LET s == IF d < 0 THEN -1 ELSE 1
        g == Gcd(Abs(n), Abs(d))
    IN  [num |-> (s * n) \div g, den |-> (s * d) \div g]

RInt(n) == [num |-> n, den |-> 1]
RAdd(a, b) == Rat(a.num * b.den + b.num * a.den, a.den * b.den)
RSub(a, b) == Rat(a.num * b.den - b.num * a.den, a.den * b.den)
RMul(a, b) == Rat(a.num * b.num, a.den * b.den)
RDiv(a, b) == Rat(a.num * b.den, a.den * b.num)
RLess(a, b) == a.num * b.den < b.num * a.den
RLeq(a, b) == a.num * b.den <= b.num * a.den

\* int(v): Python's int() of a float truncates toward zero.
RTrunc(a) == IF a.num >= 0 THEN a.num \div a.den ELSE -((-a.num) \div a.den)

\* floor(v)
RFloor(a) == a.num \div a.den

RECURSIVE RSum(_)
RSum(s) == IF s = <<>> THEN RInt(0) ELSE RAdd(Head(s), RSum(Tail(s)))

ToRats(s) == [p \in 1..Len(s) |-> RInt(s[p])]

---------------------------------------------------------------------------
(* Tensor helpers.                                                         *)

Min(a, b) == IF a < b THEN a ELSE b
Max(a, b) == IF a > b THEN a ELSE b

\* Python's slice start/stop normalisation for a sequence of length n.
SliceBound(idx, n) == IF idx < 0 THEN Max(idx + n, 0) ELSE Min(idx, n)

\* s[idx:]
SliceFrom(s, idx) == SubSeq(s, SliceBound(idx, Len(s)) + 1, Len(s))

\* Faulty variant: a negative idx is taken as 0 instead of counted from the end.
SliceTo_Clamped(s, idx) == SubSeq(s, 1, Min(Max(idx, 0), Len(s)))

\* s[:idx]
SliceTo(s, idx) == SubSeq(s, 1, SliceBound(idx, Len(s)))

\* a * b on 1-D tensors: elementwise, a length-1 operand is broadcast.
Broadcastable(a, b) == Len(a) = Len(b) \/ Len(a) = 1 \/ Len(b) = 1

TensorMul(a, b) ==
    [p \in 1..Max(Len(a), Len(b)) |->
        RMul(IF Len(a) = 1 THEN a[1] ELSE a[p], IF Len(b) = 1 THEN b[1] ELSE b[p])]

\* torch.linspace(start, end, steps): steps = 1 gives [start].
Linspace(start, end, steps) ==
    [p \in 1..steps |->
        IF steps = 1 THEN start
        ELSE RAdd(start, RMul(RInt(p - 1), RDiv(RSub(end, start), RInt(steps - 1))))]

---------------------------------------------------------------------------
(* scipy.ndimage.gaussian_filter1d(y, sigma), default mode 'reflect'.      *)
(* The kernel has radius int(4 sigma + 0.5) and weights exp(-d^2/2sigma^2) *)
(* divided by their sum.  Only sigma = 1 is modelled; its weights are      *)
(* taken in thousandths (1000, 607, 135, 11, 0 for d = 0..4).              *)

GaussianRadius(sigma) == 4 * sigma

GaussianWeight(d) ==
    CASE Abs(d) = 0 -> 1000
      [] Abs(d) = 1 -> 607
      [] Abs(d) = 2 -> 135
      [] Abs(d) = 3 -> 11
      [] OTHER      -> 0

\* 'reflect' extension (d c b a | a b c d | d c b a): 0-based position q of an
\* axis of length n maps back into 0..n-1.
Reflect(q, n) ==
    LET r == q % (2 * n)
    IN  IF r < n THEN r ELSE 2 * n - 1 - r

RECURSIVE WeightSum(_, _)
WeightSum(lo, hi) == IF lo > hi THEN 0 ELSE GaussianWeight(lo) + WeightSum(lo + 1, hi)

RECURSIVE Correlate(_, _, _, _)
Correlate(y, p, d, hi) ==
    IF d > hi THEN RInt(0)
    ELSE RAdd(RMul(RInt(GaussianWeight(d)), y[Reflect(p - 1 + d, Len(y)) + 1]),
              Correlate(y, p, d + 1, hi))

GaussianFilter1d(y, sigma) ==
    LET lw == GaussianRadius(sigma)
        total == WeightSum(-lw, lw)
    IN  [p \in 1..Len(y) |-> RDiv(Correlate(y, p, -lw, lw), RInt(total))]

---------------------------------------------------------------------------
(* EnergyLabelProcessor.process_doc and WavelengthLabelProcessor.process_doc *)
(* (the two bodies are the same code on different document fields).        *)

log_constant == Rat(1, 1000)

Raised(exception, reason) ==
    [status |-> "raised", exception |-> exception, reason |-> reason]

\* step = x[1] - x[0]
Step(x) == RSub(x[2], x[1])

\* Faulty variant: the resize test written as >=, so an exact fit is rebinned too.
NeedsResize_AsAtLeast(n, m) == n >= m

\* if x.shape[0] != self.output_size:
NeedsResize(n, m) == n # m

\* Faulty variant: the finer-than-source case is not told apart.
CanRebin_Unguarded(n, m) == n > 0

\* if x.shape[0] >= self.output_size:  (else: raise RuntimeError)
CanRebin(n, m) == n >= m

\* multiplier = int(torch.lcm(n, output_size) / n)
Multiplier(n, m) == Lcm(n, m) \div n

\* spectrum.expand(multiplier, -1).moveaxis(0, 1), read row by row: every
\* intensity repeated multiplier times.
Expand(spectrum, multiplier) ==
    [t \in 1..(Len(spectrum) * multiplier) |-> spectrum[((t - 1) \div multiplier) + 1]]

\* .reshape(output_size, -1) is possible only when the element count divides.
CanReshape(size, m) == size % m = 0

\* .reshape(output_size, -1).sum(dim=-1)
GroupSums(expanded, m) ==
    LET g == Len(expanded) \div m
    IN  [r \in 1..m |-> RSum(SubSeq(expanded, (r - 1) * g + 1, r * g))]

\* Faulty variant: the rescaling ratio inverted, output_size / (multiplier * n).
Rescale_Inverted(sums, n, multiplier, m) ==
    [r \in 1..Len(sums) |-> RDiv(RMul(sums[r], RInt(m)), RInt(multiplier * n))]

\* _spectrum * x.size(0) / (multiplier * self.output_size)
Rescale(sums, n, multiplier, m) ==
    [r \in 1..Len(sums) |-> RDiv(RMul(sums[r], RInt(n)), RInt(multiplier * m))]

\* Faulty variant: a whole step, not half a step, below the first point.
LowerBound_WholeStep(x, step) == RSub(x[1], step)

\* lower_bound = x[0] - (step/2)
LowerBound(x, step) == RSub(x[1], RDiv(step, RInt(2)))

\* upper_bound = x[-1] + (step/2)
UpperBound(x, step) == RAdd(x[Len(x)], RDiv(step, RInt(2)))

\* The resize block: the frame (x, spectrum) after it, or what it raises.
Rebin(x, spectrum, step, m) ==
    LET n == Len(x)
        multiplier == Multiplier(n, m)
        expanded == Expand(spectrum, multiplier)
    IN  IF ~NeedsResize(n, m)
        THEN [status |-> "ok", x |-> x, spectrum |-> spectrum]
        ELSE IF ~CanRebin(n, m)
        THEN Raised("RuntimeError", "cannot be rebinned")
        ELSE IF ~CanReshape(Len(expanded), m)
        THEN Raised("RuntimeError", "shape is invalid for input")
        ELSE [status |-> "ok",
              x |-> Linspace(LowerBound(x, step), UpperBound(x, step), m),
              spectrum |-> Rescale(GroupSums(expanded, m), n, multiplier, m)]

\* Faulty variant: the smoothed tensor also replaces spectrum (no separate reference).
ApplyFilter_InPlace(frame, sigma) ==
    LET smoothed == IF sigma > 0 THEN GaussianFilter1d(frame.spectrum, sigma)
                    ELSE frame.spectrum
    IN  [x |-> frame.x, spectrum |-> smoothed, y |-> smoothed]

\* y = spectrum; if self.gaussian_filter > 0: y = gaussian_filter1d(y, sigma).
\* y is a new tensor: spectrum keeps the unsmoothed intensity.
ApplyFilter(frame, sigma) ==
    [x |-> frame.x,
     spectrum |-> frame.spectrum,
     y |-> IF sigma > 0 THEN GaussianFilter1d(frame.spectrum, sigma)
           ELSE frame.spectrum]

\* idx_zero = int(np.floor(0 - self.spectrum_range[0]) / step), with the step
\* read from the document's x axis before any rebinning.
IdxZero(range, step) ==
    RTrunc(RDiv(RInt(RFloor(RInt(0 - range[1]))), step))

\* torch.log10(y + self.log_constant): log10 is kept symbolic.
LogY(y) == [p \in 1..Len(y) |-> [log10 |-> RAdd(y[p], log_constant)]]

\* The photon and energy aggregates and the returned dictionary.
Aggregate(frame, idx_zero) ==
    IF ~Broadcastable(frame.spectrum, frame.x)
    THEN Raised("RuntimeError", "size of tensor a must match size of tensor b")
    ELSE LET total_energy == TensorMul(frame.spectrum, frame.x)
         IN  [status |-> "returned",
              spectra_x |-> frame.x,
              y |-> frame.y,
              log_y |-> LogY(frame.y),
              log_const |-> log_constant,
              idx_zero |-> idx_zero,
              n_absorbed |-> RSum(SliceFrom(frame.spectrum, idx_zero)),
              n_emitted |-> RSum(SliceTo(frame.spectrum, idx_zero)),
              e_absorbed |-> RSum(SliceFrom(total_energy, idx_zero)),
              e_emitted |-> RSum(SliceTo(total_energy, idx_zero))]

\* process_doc(doc) of a label processor configured with (range, m, sigma).
ProcessDoc(x_in, y_in, range, m, sigma) ==
    IF Len(x_in) < 2
    THEN Raised("IndexError", "index 1 is out of bounds")
    ELSE LET x == ToRats(x_in)
             spectrum == ToRats(y_in)
             step == Step(x)
             rebinned == Rebin(x, spectrum, step, m)
         IN  IF rebinned.status = "raised"
             THEN rebinned
             ELSE Aggregate(ApplyFilter(rebinned, sigma), IdxZero(range, step))

---------------------------------------------------------------------------
(* GraphFeatureProcessor (dopant_pair.py).  A shell constraint is its      *)
(* radius; a dopant specification is the tuple (shell, x, element, site).  *)

possible_elements == <<"Yb", "Er", "Nd">>

\* dict[k] = v
Put(d, k, v) == [key \in (DOMAIN d) \cup {k} |-> IF key = k THEN v ELSE d[key]]

\* edge_type_map[el1][el2] = i, or edge_type_map[el1] = {el2: i} when
\* edge_type_map has no entry for el1 yet (the bare except).
SetPair(map, el1, el2, i) ==
    IF el1 \in DOMAIN map
    THEN [map EXCEPT ![el1] = Put(map[el1], el2, i)]
    ELSE Put(map, el1, Put(<<>>, el2, i))

\* list(combinations_with_replacement(elements, 2)): positions a <= b, in
\* lexicographic order.
RECURSIVE Combinations(_, _, _)
Combinations(elements, a, b) ==
    IF a > Len(elements) THEN <<>>
    ELSE IF b > Len(elements) THEN Combinations(elements, a + 1, a + 1)
    ELSE <<<<elements[a], elements[b]>>>> \o Combinations(elements, a, b + 1)

\* Faulty variant: only edge_type_map[el1][el2] is set, not the mirrored entry.
RECURSIVE BuildEdgeTypeMap_OneWay(_, _, _)
BuildEdgeTypeMap_OneWay(pairs, i, map) ==
    IF i > Len(pairs) THEN map
    ELSE BuildEdgeTypeMap_OneWay(pairs, i + 1,
             SetPair(map, pairs[i][1], pairs[i][2], i - 1))

RECURSIVE BuildEdgeTypeMap(_, _, _)
BuildEdgeTypeMap(pairs, i, map) ==
    IF i > Len(pairs) THEN map
    ELSE LET el1 == pairs[i][1]
             el2 == pairs[i][2]
         IN  BuildEdgeTypeMap(pairs, i + 1,
                 SetPair(SetPair(map, el1, el2, i - 1), el2, el1, i - 1))

edge_type_map == BuildEdgeTypeMap(Combinations(possible_elements, 1, 1), 1, <<>>)

\* DataProcessor.get_radii(idx, constraints)
get_radii(idx, cons) ==
    <<IF idx = 0 THEN 0 ELSE cons[idx], cons[idx + 1]>>

\* Faulty variant: the pair appended in the other order.
NodeDopantId_Swapped(i, j) == <<j, i>>

\* node_dopant_ids.append([i, j])
NodeDopantId(i, j) == <<i, j>>

\* types.append(self.edge_type_map[el_i][el_j])
NodeType(el_i, el_j) == edge_type_map[el_i][el_j]

\* The inner loop of get_node_features: for j, (...) in enumerate(specs).
RECURSIVE InnerLoop(_, _, _, _)
InnerLoop(i, j, specs, acc) ==
    IF j >= Len(specs) THEN acc
    ELSE InnerLoop(i, j + 1, specs,
             [types |-> Append(acc.types, NodeType(specs[i + 1][3], specs[j + 1][3])),
              node_dopant_ids |-> Append(acc.node_dopant_ids, NodeDopantId(i, j))])

\* The outer loop: for i, (...) in enumerate(specs).
RECURSIVE OuterLoop(_, _, _)
OuterLoop(i, specs, acc) ==
    IF i >= Len(specs) THEN acc
    ELSE OuterLoop(i + 1, specs, InnerLoop(i, 0, specs, acc))

get_node_features(cons, specs) ==
    LET nodes == OuterLoop(0, specs, [types |-> <<>>, node_dopant_ids |-> <<>>])
    IN  [x_dopant |-> [d \in 1..Len(specs) |-> specs[d][2]],
         types |-> nodes.types,
         radii_dopant |-> [d \in 1..Len(specs) |-> get_radii(specs[d][1], cons)],
         node_dopant_index |-> nodes.node_dopant_ids]

\* torch.cartesian_prod(x, x) for x = arange(0, num_nodes): rows (p, q), p major.
CartesianProd(num_nodes) ==
    [t \in 1..(num_nodes * num_nodes) |->
        <<(t - 1) \div num_nodes, (t - 1) % num_nodes>>]

\* node_dopant_ids[i] == node_dopant_ids[j], one row
SharedBool(a, b) == <<a[1] = b[1], a[2] = b[2]>>

\* Faulty variant: the second comparison made without the flip.
SharedBoolFlip_NoFlip(a, b) == <<a[1] = b[1], a[2] = b[2]>>

\* node_dopant_ids[i] == node_dopant_ids[j].flip(1), one row
SharedBoolFlip(a, b) == <<a[1] = b[2], a[2] = b[1]>>

\* Faulty variant: only column 0 of the combined mask is used.
EdgeShareBool_FirstColumn(a, b) ==
    SharedBool(a, b)[1] \/ SharedBoolFlip(a, b)[1]

\* logical_or of the two, then of its two columns
EdgeShareBool(a, b) ==
    LET both == <<SharedBool(a, b)[1] \/ SharedBoolFlip(a, b)[1],
                  SharedBool(a, b)[2] \/ SharedBoolFlip(a, b)[2]>>
    IN  both[1] \/ both[2]

\* The rows (i[t], j[t]) of prod whose mask entry is set, in order.
Masked(prod, ids) ==
    SelectSeq(prod, LAMBDA row : EdgeShareBool(ids[row[1] + 1], ids[row[2] + 1]))

\* With no node, node_dopant_ids is the 1-D empty tensor and .flip(1) raises.
\* edge_index = torch.stack((i[mask], j[mask]))
get_edge_features(num_nodes, node_dopant_ids) ==
    IF num_nodes = 0
    THEN Raised("IndexError", "Dimension out of range")
    ELSE LET kept == Masked(CartesianProd(num_nodes), node_dopant_ids)
         IN  [status |-> "ok",
              edge_index |-> <<[e \in 1..Len(kept) |-> kept[e][1]],
                               [e \in 1..Len(kept) |-> kept[e][2]]>>]

get_data_graph(cons, specs) ==
    LET output_dict == get_node_features(cons, specs)
        edges == get_edge_features(Len(output_dict.types), output_dict.node_dopant_index)
    IN  IF edges.status = "raised" THEN edges
        ELSE [status |-> "returned",
              x_dopant |-> output_dict.x_dopant,
              types |-> output_dict.types,
              radii_dopant |-> output_dict.radii_dopant,
              node_dopant_index |-> output_dict.node_dopant_index,
              edge_index |-> edges.edge_index]

---------------------------------------------------------------------------
(* The documents and processor configurations explored.                    *)

XStarts == {-2, 0}
Steps == {1, 2}
Intensities == {0, 1, 3}
Sigmas == {0, 1}
RangeMins == {-4, -2, 1}

\* A uniform, strictly increasing axis of n points.
Axis(x0, step, n) == [p \in 1..n |-> x0 + (p - 1) * step]

\* Scenario A of the specification: x = [-2,-1,0,1], y = [1,2,3,4].
ScenarioAX == <<-2, -1, 0, 1>>
ScenarioAY == <<1, 2, 3, 4>>

SpectraX == {Axis(x0, st, n) : x0 \in XStarts, st \in Steps, n \in 2..MaxLen}
SpectraY == UNION {[1..n -> Intensities] : n \in 1..MaxLen} \cup {ScenarioAY}

Pending == [status |-> "pending"]

InitAugmentIdle ==
    /\ template = [constraints |-> <<>>, dopant_specifications |-> <<>>]
    /\ draws = <<>>
    /\ new_templates = Pending

InitSeededIdle ==
    /\ seeds = <<>>
    /\ rng = <<>>
    /\ history = <<>>

InitBatchIdle ==
    /\ data_list = <<>>
    /\ batch = Pending

InitGraphIdle ==
    /\ constraints = <<>>
    /\ dopant_specifications = <<>>
    /\ graph = Pending

InitLabel ==
    /\ spectrum_range \in {<<lo, 0>> : lo \in RangeMins}
    /\ output_size \in 1..(MaxLen + 1)
    /\ gaussian_filter \in Sigmas
    /\ doc \in [spectrum_x : SpectraX, spectrum_y : SpectraY]
    /\ label = Pending
    /\ InitGraphIdle
    /\ InitAugmentIdle
    /\ InitSeededIdle
    /\ InitBatchIdle

EnergyProcessDoc ==
    /\ label = Pending
    /\ label' = [processor |-> "Energy",
                 out |-> ProcessDoc(doc.spectrum_x, doc.spectrum_y,
                                    spectrum_range, output_size, gaussian_filter)]
    /\ UNCHANGED <<spectrum_range, output_size, gaussian_filter, doc, graphVars,
                   augmentVars, seededVars, batchVars>>

WavelengthProcessDoc ==
    /\ label = Pending
    /\ label' = [processor |-> "Wavelength",
                 out |-> ProcessDoc(doc.spectrum_x, doc.spectrum_y,
                                    spectrum_range, output_size, gaussian_filter)]
    /\ UNCHANGED <<spectrum_range, output_size, gaussian_filter, doc, graphVars,
                   augmentVars, seededVars, batchVars>>

NextLabel == EnergyProcessDoc \/ WavelengthProcessDoc

SpecLabel == InitLabel /\ [][NextLabel]_vars

---------------------------------------------------------------------------
(* The particle templates explored by the graph builder.                   *)

ConstraintLists == {<<5>>, <<5, 10>>}
Concentrations == {2, 15}
Sites == {"Y"}

RECURSIVE SeqsUpTo(_, _)
SeqsUpTo(S, n) ==
    IF n = 0 THEN {<<>>}
    ELSE LET shorter == SeqsUpTo(S, n - 1)
         IN  shorter \cup {Append(q, e) : q \in {r \in shorter : Len(r) = n - 1}, e \in S}

DopantSpecs(cons) ==
    {<<c, x, el, site>> : c \in 0..(Len(cons) - 1), x \in Concentrations,
                          el \in {possible_elements[a] : a \in 1..Len(possible_elements)},
                          site \in Sites}

InitLabelIdle ==
    /\ spectrum_range = <<-2, 0>>
    /\ output_size = 2
    /\ gaussian_filter = 0
    /\ doc = [spectrum_x |-> ScenarioAX, spectrum_y |-> ScenarioAY]
    /\ label = Pending

InitGraph ==
    /\ constraints \in ConstraintLists
    /\ dopant_specifications \in SeqsUpTo(DopantSpecs(constraints), MaxDopants)
    /\ graph = Pending
    /\ InitLabelIdle
    /\ InitAugmentIdle
    /\ InitSeededIdle
    /\ InitBatchIdle

\* GraphFeatureProcessor.process_doc
GraphProcessDoc ==
    /\ graph = Pending
    /\ graph' = get_data_graph(constraints, dopant_specifications)
    /\ UNCHANGED <<constraints, dopant_specifications, labelVars,
                   augmentVars, seededVars, batchVars>>

NextGraph == GraphProcessDoc

SpecGraph == InitGraph /\ [][NextGraph]_vars

---------------------------------------------------------------------------
(* Properties of the label processors (checked under SpecLabel).           *)

Processed == label # Pending
Returned == Processed /\ label.out.status = "returned"
DocX == ToRats(doc.spectrum_x)
DocY == ToRats(doc.spectrum_y)
NBins == Len(doc.spectrum_x)
PairedDoc == Len(doc.spectrum_y) = Len(doc.spectrum_x)
Rebinned == Returned /\ NBins > output_size
OldStep == Step(DocX)
ResolutionError == Raised("RuntimeError", "cannot be rebinned")
ShapeReasons == {"shape is invalid for input", "size of tensor a must match size of tensor b"}

\* C1 (as claimed): integral preservation.  For every paired spectrum rebinned
\* to m < n bins (read before smoothing, on an axis that has a spacing),
\* sum(rebinned_y) * (new_step / old_step) = sum(original_y).
C1_IntegralPreserved ==
    (Rebinned /\ PairedDoc /\ gaussian_filter = 0 /\ output_size >= 2) =>
        RMul(RSum(label.out.y),
             RDiv(RSub(label.out.spectra_x[2], label.out.spectra_x[1]), OldStep))
          = RSum(DocY)

\* C2 (as claimed): scenario A returns y = [3, 7] on the axis [-1.5, 0.5].
ScenarioA ==
    /\ doc.spectrum_x = ScenarioAX
    /\ doc.spectrum_y = ScenarioAY
    /\ output_size = 2
    /\ gaussian_filter = 0

EvenlySpaced(x) ==
    \A p \in 2..(Len(x) - 1) : RSub(x[p + 1], x[p]) = RSub(x[2], x[1])

AxisFirst == RSub(DocX[1], RDiv(OldStep, RInt(2)))
AxisLast == RAdd(DocX[NBins], RDiv(OldStep, RInt(2)))

\* C3 (as claimed): whenever process_doc rebins (n > m) the returned axis has m
\* evenly spaced points from x[0] - step/2 to x[n-1] + step/2, so its span is
\* old_span + old_step.
C3_DomainWidth_Claimed ==
    Rebinned =>
        /\ Len(label.out.spectra_x) = output_size
        /\ EvenlySpaced(label.out.spectra_x)
        /\ label.out.spectra_x[1] = AxisFirst
        /\ label.out.spectra_x[output_size] = AxisLast
        /\ RSub(label.out.spectra_x[output_size], label.out.spectra_x[1])
             = RAdd(RSub(DocX[NBins], DocX[1]), OldStep)

\* C3 (amended): whenever process_doc rebins to m >= 2 bins (n > m >= 2) the
\* returned axis has m evenly spaced points from x[0] - step/2 to
\* x[n-1] + step/2 and spans old_span + old_step; rebinning to m = 1 returns
\* the single point x[0] - step/2.
C3_DomainWidth ==
    Rebinned =>
        /\ Len(label.out.spectra_x) = output_size
        /\ EvenlySpaced(label.out.spectra_x)
        /\ label.out.spectra_x[1] = AxisFirst
        /\ output_size >= 2 =>
             /\ label.out.spectra_x[output_size] = AxisLast
             /\ RSub(label.out.spectra_x[output_size], label.out.spectra_x[1])
                  = RAdd(RSub(DocX[NBins], DocX[1]), OldStep)

C3_Witness == Rebinned /\ output_size = 3 /\ NBins = 4 /\ OldStep = RInt(2)

\* C4: upsampling rejection.  A spectrum of n bins asked for m > n bins makes
\* process_doc raise the resolution error (RuntimeError "cannot be rebinned")
\* and return no label.
C4_UpsamplingRejected ==
    (Processed /\ NBins < output_size) => label.out = ResolutionError

C4_Witness ==
    Processed /\ PairedDoc /\ NBins = 2 /\ output_size = 4 /\ label.out = ResolutionError

\* C5 (as claimed): a document whose x and y differ in length makes process_doc
\* fail with a shape error, for every target m <= len(x).
C5_ShapeMismatchRaises ==
    (Processed /\ ~PairedDoc /\ output_size <= NBins) =>
        /\ label.out.status = "raised"
        /\ label.out.reason \in ShapeReasons

\* C6 (as claimed): idx_zero splits emission from absorption.  On a document
\* whose axis starts at the crop range's lower bound, every returned bin below
\* idx_zero has x < 0 and every bin from idx_zero on has x >= 0.
C6_SplitAtOrigin ==
    (Returned /\ PairedDoc /\ doc.spectrum_x[1] = spectrum_range[1]) =>
        \A p \in 1..Len(label.out.spectra_x) :
            /\ (p - 1 < label.out.idx_zero) => RLess(label.out.spectra_x[p], RInt(0))
            /\ (p - 1 >= label.out.idx_zero) => RLeq(RInt(0), label.out.spectra_x[p])

\* C7: pass-through.  With n = m and sigma = 0 process_doc returns the
\* document's x axis and intensity, element for element.
C7_PassThrough ==
    (Processed /\ PairedDoc /\ NBins = output_size /\ gaussian_filter = 0) =>
        /\ label.out.status = "returned"
        /\ label.out.spectra_x = DocX
        /\ label.out.y = DocY

C7_Witness ==
    /\ Returned /\ PairedDoc /\ NBins = output_size /\ gaussian_filter = 0
    /\ NBins = 3 /\ label.out.y # <<RInt(0), RInt(0), RInt(0)>>

\* What the same processor returns for the same document under sigma.
WithSigma(sigma) ==
    ProcessDoc(doc.spectrum_x, doc.spectrum_y, spectrum_range, output_size, sigma)

\* C8: photon counts do not depend on smoothing.  For the same document and
\* target size, n_absorbed and n_emitted are the same for every sigma.
C8_CountsIgnoreSmoothing ==
    Returned =>
        \A sigma \in Sigmas :
            LET other == WithSigma(sigma)
            IN  /\ other.status = "returned"
                /\ other.n_absorbed = label.out.n_absorbed
                /\ other.n_emitted = label.out.n_emitted

C8_Witness ==
    /\ Returned /\ gaussian_filter = 1
    /\ label.out.y # WithSigma(0).y
    /\ label.out.n_absorbed # RInt(0)
    /\ label.out.n_emitted # RInt(0)

\* C19 (as claimed): the split-index formula.  idx_zero is the floor of the
\* quotient (0 - range_min) / step, step being the bin spacing of the x axis
\* that process_doc returns.
C19_SplitIndexFormula ==
    (Returned /\ PairedDoc /\ Len(label.out.spectra_x) >= 2) =>
        LET step == RSub(label.out.spectra_x[2], label.out.spectra_x[1])
        IN  RLess(RInt(0), step) =>
                label.out.idx_zero = RFloor(RDiv(RInt(0 - spectrum_range[1]), step))

\* The intensity after rebinning and before smoothing: what the same
\* processor returns as y with sigma = 0.
Unsmoothed == WithSigma(0).y

\* C21: the photon counts partition the spectrum.  In every result
\* n_absorbed + n_emitted is the sum of the unsmoothed post-rebin intensity
\* and e_absorbed + e_emitted is the sum of intensity times x over all bins,
\* whatever idx_zero is (0, beyond the last bin, negative); the bins before
\* idx_zero followed by the bins from idx_zero on are the bins, each once.
C21_CountsPartition ==
    Returned =>
        LET spectrum == Unsmoothed
            total_energy == TensorMul(spectrum, label.out.spectra_x)
            idx_zero == label.out.idx_zero
        IN  /\ RAdd(label.out.n_absorbed, label.out.n_emitted) = RSum(spectrum)
            /\ RAdd(label.out.e_absorbed, label.out.e_emitted) = RSum(total_energy)
            /\ SliceTo(spectrum, idx_zero) \o SliceFrom(spectrum, idx_zero) = spectrum
            /\ SliceTo(total_energy, idx_zero) \o SliceFrom(total_energy, idx_zero)
                 = total_energy

C21_Witness ==
    /\ Returned /\ PairedDoc /\ gaussian_filter = 1
    /\ spectrum_range[1] > 0
    /\ label.out.idx_zero < 0
    /\ label.out.n_absorbed # RInt(0)
    /\ label.out.n_emitted # RInt(0)
    /\ label.out.e_emitted # RInt(0)
    /\ label.out.n_emitted # RSum(Unsmoothed)

---------------------------------------------------------------------------
(* Properties of the dopant-pair graph builder (checked under SpecGraph).  *)

GraphReturned == graph # Pending /\ graph.status = "returned"
NDopants == Len(dopant_specifications)

\* The directed edges of the returned graph, as 0-based node pairs.
Edges ==
    {<<graph.edge_index[1][e], graph.edge_index[2][e]>> :
        e \in 1..Len(graph.edge_index[1])}

\* {i, j} and {k, l} share a dopant index.
SharesDopant(a, b) == {a[1], a[2]} \cap {b[1], b[2]} # {}

\* C9: pair adjacency.  The directed edge (p, q) is emitted, once, if and only
\* if the dopant-index pairs of nodes p and q share a dopant index; for two
\* dopant specifications nodes (0,0) and (1,1) are the only distinct nodes
\* left unconnected.
C9_PairAdjacency ==
    GraphReturned =>
        LET E == Edges
            Nodes == 0..(NDopants * NDopants - 1)
        IN  /\ Len(graph.edge_index[1]) = Len(graph.edge_index[2])
            /\ Cardinality(E) = Len(graph.edge_index[1])
            /\ E \subseteq Nodes \X Nodes
            /\ \A p, q \in Nodes :
                  (<<p, q>> \in E) <=>
                      SharesDopant(graph.node_dopant_index[p + 1],
                                   graph.node_dopant_index[q + 1])
            /\ NDopants = 2 =>
                  \A p, q \in 0..3 :
                      (p # q) => ((<<p, q>> \notin E) <=> ({p, q} = {0, 3}))

C9_Witness ==
    /\ GraphReturned /\ NDopants = 3
    /\ <<1, 3>> \in Edges
    /\ <<0, 4>> \notin Edges

\* The id of the unordered element pair at 0-based positions a, b of
\* possible_elements: its rank among the pairs a <= b in lexicographic order.
ElementPos(el) == (CHOOSE a \in 1..Len(possible_elements) : possible_elements[a] = el) - 1

PairTypeId(el1, el2) ==
    LET a == Min(ElementPos(el1), ElementPos(el2))
        b == Max(ElementPos(el1), ElementPos(el2))
    IN  a * Len(possible_elements) - ((a * (a - 1)) \div 2) + (b - a)

\* C10: node count and ordering.  get_node_features gives k*k nodes; the node
\* at row-major position i*k + j carries the pair (i, j) and the pair-type id
\* of (element_i, element_j); x_dopant and radii_dopant have k rows, row d
\* holding the concentration and the (inner, outer) radii of specification d.
C10_NodeOrdering ==
    LET nf == get_node_features(constraints, dopant_specifications)
        k == NDopants
    IN  /\ Len(nf.types) = k * k
        /\ Len(nf.node_dopant_index) = k * k
        /\ \A i, j \in 0..(k - 1) :
              /\ nf.node_dopant_index[i * k + j + 1] = <<i, j>>
              /\ nf.types[i * k + j + 1] =
                    PairTypeId(dopant_specifications[i + 1][3],
                               dopant_specifications[j + 1][3])
        /\ Len(nf.x_dopant) = k
        /\ Len(nf.radii_dopant) = k
        /\ \A d \in 1..k :
              LET shell == dopant_specifications[d][1]
              IN  /\ nf.x_dopant[d] = dopant_specifications[d][2]
                  /\ nf.radii_dopant[d][1] = (IF shell = 0 THEN 0 ELSE constraints[shell])
                  /\ nf.radii_dopant[d][2] = constraints[shell + 1]
        /\ GraphReturned =>
              /\ graph.types = nf.types
              /\ graph.node_dopant_index = nf.node_dopant_index
              /\ graph.x_dopant = nf.x_dopant
              /\ graph.radii_dopant = nf.radii_dopant

C10_Witness ==
    /\ GraphReturned /\ NDopants = 3
    /\ graph.node_dopant_index[6] = <<1, 2>>
    /\ graph.types[6] = 4
    /\ graph.radii_dopant[2] = <<5, 10>>
    /\ graph.x_dopant[3] # graph.x_dopant[2]

\* C11 (as claimed): an empty dopant-specification list gives an empty graph.
\* process_doc does not fail on it and returns 0 nodes and 0 edges.
C11_EmptyGraph ==
    (graph # Pending /\ NDopants = 0) =>
        /\ graph.status = "returned"
        /\ Len(graph.types) = 0
        /\ Len(graph.edge_index[1]) = 0

\* C12: edge symmetry.  If (p, q) is in edge_index then so is (q, p).
C12_EdgeSymmetry ==
    GraphReturned =>
        LET E == Edges
        IN  \A e \in E : <<e[2], e[1]>> \in E

C12_Witness ==
    /\ GraphReturned /\ NDopants = 2
    /\ <<1, 3>> \in Edges
    /\ <<3, 1>> \in Edges

Elements == {possible_elements[a] : a \in 1..Len(possible_elements)}

\* C13: symmetric pair-type lookup.  edge_type_map[A][B] is defined for every
\* two possible elements and equals edge_type_map[B][A], so nodes (i, j) and
\* (j, i) carry the same pair-type id.
C13_SymmetricLookup ==
    /\ \A A, B \in Elements :
          /\ A \in DOMAIN edge_type_map
          /\ B \in DOMAIN edge_type_map[A]
    /\ \A A, B \in Elements : edge_type_map[A][B] = edge_type_map[B][A]
    /\ GraphReturned =>
          \A i, j \in 0..(NDopants - 1) :
              graph.types[i * NDopants + j + 1] = graph.types[j * NDopants + i + 1]

C13_Witness ==
    /\ GraphReturned /\ NDopants = 2
    /\ dopant_specifications[1][3] = "Yb"
    /\ dopant_specifications[2][3] = "Nd"
    /\ graph.types = <<0, 2, 2, 5>>

---------------------------------------------------------------------------
(* UCNPAugmenter: generate_single_augment and augment_template.  Radii are *)
(* integers counting hundredths.  What self.rng returns during one call is *)
(* gathered in a record                                                    *)
(*   [constraints_to_subdivide, n_divisions, radii]                        *)
(* with n_divisions[i] and the sorted radii[i] for every shell i chosen.   *)

max_subdivisions == 3
subdivision_increment == 10

MaxAugments == 2       \* largest n_augments handed to augment_template
MaxAugDopants == 2     \* longest dopant-specification list of a template
MaxCalls == 2          \* calls made on one seeded UCNPAugmenter instance

Range(f) == {f[p] : p \in DOMAIN f}

\* sorted(...) of distinct numbers
RECURSIVE SortedSeq(_)
SortedSeq(S) ==
    IF S = {} THEN <<>>
    ELSE LET m == CHOOSE x \in S : \A y \in S : x <= y
         IN  <<m>> \o SortedSeq(S \ {m})

\* np.arange(start, stop, step): start + k * step for every k >= 0 that
\* stays below stop.
Arange(start, stop, step) ==
    LET n == IF stop <= start THEN 0 ELSE (stop - start + step - 1) \div step
    IN  [k \in 1..n |-> start + (k - 1) * step]

\* np.round(r, 1): the nearest tenth, a half going to the even tenth.
Round1(r) ==
    LET q == r \div 10
        rem == r % 10
    IN  IF rem < 5 THEN 10 * q
        ELSE IF rem > 5 THEN 10 * (q + 1)
        ELSE IF q % 2 = 0 THEN 10 * q
        ELSE 10 * (q + 1)

\* dopant_specification_by_layer[i]: _tuple[1:] of every specification whose
\* _tuple[0] is i, in the order of the input list.
dopant_specification_by_layer(specs, i) ==
    LET mine == SelectSeq(specs, LAMBDA t : t[1] = i)
    IN  [p \in 1..Len(mine) |-> Tail(mine[p])]

\* [(constraint_counter, *spec) for spec in dopant_specification_by_layer[i]]
Renumbered(constraint_counter, layer) ==
    [p \in 1..Len(layer) |-> <<constraint_counter>> \o layer[p]]

\* np.arange(min_radius, max_radius, subdivision_increment) of shell i
SubdivisionGrid(cons, i) ==
    LET min_radius == IF i = 0 THEN 0 ELSE cons[i]
        max_radius == cons[i + 1]
    IN  Arange(min_radius, max_radius, subdivision_increment)

\* Faulty variant: the sub-shells get no dopant specification.
RECURSIVE SubdivideShell_NoDopants(_, _, _, _)
SubdivideShell_NoDopants(radii, j, layer, acc) ==
    IF j > Len(radii) THEN acc
    ELSE SubdivideShell_NoDopants(radii, j + 1, layer,
             [new_constraints |-> Append(acc.new_constraints, Round1(radii[j])),
              new_dopant_specification |-> acc.new_dopant_specification,
              constraint_counter |-> acc.constraint_counter + 1])

\* for r in radii: one new constraint and one copy of the shell's dopants
RECURSIVE SubdivideShell(_, _, _, _)
SubdivideShell(radii, j, layer, acc) ==
    IF j > Len(radii) THEN acc
    ELSE SubdivideShell(radii, j + 1, layer,
             [new_constraints |-> Append(acc.new_constraints, Round1(radii[j])),
              new_dopant_specification |->
                  acc.new_dopant_specification
                      \o Renumbered(acc.constraint_counter, layer),
              constraint_counter |-> acc.constraint_counter + 1])

\* new_constraints.append(constraints[i]) and the dopants of shell i under
\* the running constraint_counter
KeepShell(acc, radius, layer) ==
    [new_constraints |-> Append(acc.new_constraints, radius),
     new_dopant_specification |->
         acc.new_dopant_specification \o Renumbered(acc.constraint_counter, layer),
     constraint_counter |-> acc.constraint_counter + 1]

\* Faulty variant: the smallest radius drawn is skipped.
SubdivideOrKeep_SkipFirst(chosen, radii, layer, acc) ==
    IF chosen THEN SubdivideShell(radii, 2, layer, acc) ELSE acc

\* if i in constraints_to_subdivide: ... (the sub-shells are put first)
SubdivideOrKeep(chosen, radii, layer, acc) ==
    IF chosen THEN SubdivideShell(radii, 1, layer, acc) ELSE acc

\* for i in range(n_constraints)
RECURSIVE ShellLoop(_, _, _, _, _)
ShellLoop(cons, specs, i, drawn, acc) ==
    IF i >= Len(cons) THEN acc
    ELSE LET layer == dopant_specification_by_layer(specs, i)
             chosen == i \in drawn.constraints_to_subdivide
             sub == SubdivideOrKeep(chosen, IF chosen THEN drawn.radii[i] ELSE <<>>,
                                    layer, acc)
         IN  ShellLoop(cons, specs, i + 1, drawn,
                       KeepShell(sub, cons[i + 1], layer))

\* generate_single_augment, the generator having returned `drawn`.
\* rng.integers(1, 1) raises for an empty constraint list, and rng.choice
\* raises when asked for more radii than the grid of the shell holds.
generate_single_augment(cons, specs, drawn) ==
    IF Len(cons) = 0
    THEN Raised("ValueError", "low >= high")
    ELSE IF \E i \in drawn.constraints_to_subdivide :
                drawn.n_divisions[i] > Len(SubdivisionGrid(cons, i))
    THEN Raised("ValueError",
                "Cannot take a larger sample than population when replace is False")
    ELSE LET out == ShellLoop(cons, specs, 0, drawn,
                              [new_constraints |-> <<>>,
                               new_dopant_specification |-> <<>>,
                               constraint_counter |-> 0])
         IN  [status |-> "returned",
              constraints |-> out.new_constraints,
              dopant_specifications |-> out.new_dopant_specification]

\* sorted(self.rng.choice(a, size, replace=False)): any size distinct
\* elements of a.  Nothing is drawn when the call raises.
Choices(a, size) ==
    IF size > Len(a) THEN {<<>>}
    ELSE {SortedSeq(T) : T \in {U \in SUBSET Range(a) : Cardinality(U) = size}}

\* Everything self.rng can return during one generate_single_augment:
\* n_constraints_to_divide in 1..n_constraints, that many distinct shells,
\* and per shell n_divisions in 1..max_subdivisions-1 and its radii.
Draws(cons) ==
    LET shells == 0..(Len(cons) - 1)
    IN  IF shells = {}
        THEN {[constraints_to_subdivide |-> {}, n_divisions |-> <<>>, radii |-> <<>>]}
        ELSE UNION {
               UNION {
                 {[constraints_to_subdivide |-> S, n_divisions |-> nd, radii |-> r] :
                    r \in {q \in [S -> UNION {Choices(SubdivisionGrid(cons, i), nd[i]) : i \in S}] :
                             \A i \in S : q[i] \in Choices(SubdivisionGrid(cons, i), nd[i])}} :
                 nd \in [S -> 1..(max_subdivisions - 1)]} :
               S \in (SUBSET shells) \ {{}}}

\* The templates explored by the augmenter: no shell, one shell, a thin outer
\* shell, radii off the 0.1 grid.
AugConstraintLists == {<<>>, <<20>>, <<20, 30>>, <<5, 25>>}
AugElements == {"Yb", "Er"}

AugDopantSpecs(cons) ==
    {<<c, 15, el, "Y">> : c \in 0..(Len(cons) - 1), el \in AugElements}

Templates ==
    UNION {{[constraints |-> cons, dopant_specifications |-> specs] :
               specs \in SeqsUpTo(AugDopantSpecs(cons), MaxAugDopants)} :
           cons \in AugConstraintLists}

InitAugment ==
    /\ template \in Templates
    /\ draws = <<>>
    /\ new_templates = Pending
    /\ InitLabelIdle
    /\ InitGraphIdle
    /\ InitSeededIdle
    /\ InitBatchIdle

\* UCNPAugmenter.generate_single_augment(constraints, dopant_specifications)
GenerateSingleAugment ==
    /\ new_templates = Pending
    /\ \E drawn \in Draws(template.constraints) :
          LET out == generate_single_augment(template.constraints,
                                             template.dopant_specifications, drawn)
          IN  /\ draws' = <<drawn>>
              /\ new_templates' =
                    IF out.status = "raised"
                    THEN [call |-> "generate_single_augment", out |-> out]
                    ELSE [call |-> "generate_single_augment",
                          out |-> [status |-> "returned", templates |-> <<out>>]]
    /\ UNCHANGED <<template, labelVars, graphVars, seededVars, batchVars>>

\* UCNPAugmenter.augment_template(constraints, dopant_specifications, n_augments):
\* n_augments calls of generate_single_augment, the first one that raises
\* ending the loop.
AugmentTemplate ==
    /\ new_templates = Pending
    /\ \E n_augments \in 0..MaxAugments :
       \E ds \in SeqsUpTo(Draws(template.constraints), n_augments) :
          LET outs == [t \in 1..Len(ds) |->
                          generate_single_augment(template.constraints,
                                                  template.dopant_specifications, ds[t])]
          IN  /\ \A t \in 1..(Len(ds) - 1) : outs[t].status = "returned"
              /\ Len(ds) < n_augments =>
                    (Len(ds) > 0 /\ outs[Len(ds)].status = "raised")
              /\ draws' = ds
              /\ new_templates' =
                    IF Len(ds) > 0 /\ outs[Len(ds)].status = "raised"
                    THEN [call |-> "augment_template", out |-> outs[Len(ds)]]
                    ELSE [call |-> "augment_template",
                          out |-> [status |-> "returned", templates |-> outs]]
    /\ UNCHANGED <<template, labelVars, graphVars, seededVars, batchVars>>

NextAugment == GenerateSingleAugment \/ AugmentTemplate

SpecAugment == InitAugment /\ [][NextAugment]_vars

---------------------------------------------------------------------------
(* The seeded generator.  np.random.default_rng(seed) is a deterministic   *)
(* generator whose state belongs to the object it returns; it stands here  *)
(* as a small linear congruential generator: every draw is a function of   *)
(* the state and moves the state on.                                       *)

\* np.random.default_rng(random_seed): the state the seed gives.
default_rng(random_seed) == random_seed % 64

\* The state after one draw, and the number a state yields.
Advance(state) == (5 * state + 3) % 64
Bits(state) == state \div 4

\* rng.integers(low, high), high exclusive
RngIntegers(state, low, high) ==
    [value |-> low + (Bits(state) % (high - low)), rng |-> Advance(state)]

\* rng.choice(a, size, replace=False): size draws, each among what is left
RECURSIVE RngChoice(_, _, _, _)
RngChoice(state, a, size, picked) ==
    IF size = 0 THEN [value |-> SortedSeq(picked), rng |-> state]
    ELSE LET rest == SelectSeq(a, LAMBDA v : v \notin picked)
             p == rest[1 + (Bits(state) % Len(rest))]
         IN  RngChoice(Advance(state), a, size - 1, picked \cup {p})

\* The draws of lines 643-644 for the shells chosen, innermost first; the
\* first shell whose grid is too small ends the call.
RECURSIVE DrawShells(_, _, _)
DrawShells(cons, i, acc) ==
    IF i >= Len(cons) \/ acc.failed THEN acc
    ELSE IF i \notin acc.constraints_to_subdivide THEN DrawShells(cons, i + 1, acc)
    ELSE LET n_divisions == RngIntegers(acc.rng, 1, max_subdivisions)
             grid == SubdivisionGrid(cons, i)
             radii == RngChoice(n_divisions.rng, grid, n_divisions.value, {})
         IN  IF n_divisions.value > Len(grid)
             THEN [acc EXCEPT !.n_divisions[i] = n_divisions.value,
                              !.rng = n_divisions.rng,
                              !.failed = TRUE]
             ELSE DrawShells(cons, i + 1,
                      [acc EXCEPT !.n_divisions[i] = n_divisions.value,
                                  !.radii[i] = radii.value,
                                  !.rng = radii.rng])

\* What a generator in `state` returns during one generate_single_augment,
\* and the state it is left in.
SeededDraws(cons, state) ==
    IF Len(cons) = 0
    THEN [constraints_to_subdivide |-> {}, n_divisions |-> <<>>, radii |-> <<>>,
          rng |-> state, failed |-> TRUE]
    ELSE LET n_constraints_to_divide == RngIntegers(state, 1, Len(cons) + 1)
             chosen == RngChoice(n_constraints_to_divide.rng,
                                 Arange(0, Len(cons), 1),
                                 n_constraints_to_divide.value, {})
             S == Range(chosen.value)
         IN  DrawShells(cons, 0,
                 [constraints_to_subdivide |-> S,
                  n_divisions |-> [i \in S |-> 1],
                  radii |-> [i \in S |-> <<>>],
                  rng |-> chosen.rng,
                  failed |-> FALSE])

\* generate_single_augment on an instance whose generator is in `state`
SeededAugment(tpl, state) ==
    LET drawn == SeededDraws(tpl.constraints, state)
    IN  [out |-> generate_single_augment(tpl.constraints,
                                         tpl.dopant_specifications, drawn),
         rng |-> drawn.rng]

\* augment_template on an instance whose generator is in `state`: the loop
\* of line 607 from its iteration t on, acc holding the templates so far.
RECURSIVE SeededAugments(_, _, _, _, _)
SeededAugments(tpl, state, t, n_augments, acc) ==
    IF t > n_augments
    THEN [out |-> [status |-> "returned", templates |-> acc], rng |-> state]
    ELSE LET call == SeededAugment(tpl, state)
         IN  IF call.out.status = "raised" THEN call
             ELSE SeededAugments(tpl, call.rng, t + 1, n_augments,
                                 Append(acc, call.out))

\* self.rng of one instance
OwnRng(rngs, inst) == rngs[inst]

\* Faulty variant: one generator shared by every instance.
StoreRng_Shared(rngs, inst, state) == [other \in DOMAIN rngs |-> state]

\* The draws move the generator of the instance called, and no other.
StoreRng(rngs, inst, state) == [rngs EXCEPT ![inst] = state]

Instances == {"a", "b"}
Seeds == {1, 2}
SeededNAugments == {2}
SeededTemplates ==
    {[constraints |-> <<20, 30>>, dopant_specifications |-> <<<<0, 15, "Yb", "Y">>>>],
     [constraints |-> <<5, 25>>, dopant_specifications |-> <<<<1, 15, "Er", "Y">>>>]}

\* UCNPAugmenter(random_seed), twice
InitSeeded ==
    /\ seeds \in [Instances -> Seeds]
    /\ rng = [inst \in Instances |-> default_rng(seeds[inst])]
    /\ history = [inst \in Instances |-> <<>>]
    /\ InitLabelIdle
    /\ InitGraphIdle
    /\ InitAugmentIdle
    /\ InitBatchIdle

\* generate_single_augment called on one of the instances
SeededGenerateSingleAugment ==
    /\ \E inst \in Instances, tpl \in SeededTemplates :
          LET call == SeededAugment(tpl, OwnRng(rng, inst))
          IN  /\ Len(history[inst]) < MaxCalls
              /\ rng' = StoreRng(rng, inst, call.rng)
              /\ history' = [history EXCEPT ![inst] =
                                Append(@, [input |-> <<"generate_single_augment", tpl>>,
                                           out |-> call.out])]
    /\ UNCHANGED <<seeds, labelVars, graphVars, augmentVars, batchVars>>

\* augment_template called on one of the instances
SeededAugmentTemplate ==
    /\ \E inst \in Instances, tpl \in SeededTemplates, n_augments \in SeededNAugments :
          LET call == SeededAugments(tpl, OwnRng(rng, inst), 1, n_augments, <<>>)
          IN  /\ Len(history[inst]) < MaxCalls
              /\ rng' = StoreRng(rng, inst, call.rng)
              /\ history' = [history EXCEPT ![inst] =
                                Append(@, [input |-> <<"augment_template", tpl, n_augments>>,
                                           out |-> call.out])]
    /\ UNCHANGED <<seeds, labelVars, graphVars, augmentVars, batchVars>>

NextSeeded == SeededGenerateSingleAugment \/ SeededAugmentTemplate

SpecSeeded == InitSeeded /\ [][NextSeeded]_vars

---------------------------------------------------------------------------
(* Properties of the augmenter (checked under SpecAugment).                *)

Augmented == new_templates # Pending
AugReturned == Augmented /\ new_templates.out.status = "returned"
NAugments == Len(new_templates.out.templates)
Shells == 0..(Len(template.constraints) - 1)

InnerBound(cons, i) == IF i = 0 THEN 0 ELSE cons[i]
OuterBound(cons, i) == cons[i + 1]
StrictlyIncreasing(q) == \A p \in 1..(Len(q) - 1) : q[p] < q[p + 1]

\* Number of sub-radii drawn for shell s.
NSub(drawn, s) ==
    IF s \in drawn.constraints_to_subdivide THEN Len(drawn.radii[s]) ELSE 0

\* Number of sub-radii drawn for the shells 0..s.
RECURSIVE NSubUpTo(_, _)
NSubUpTo(drawn, s) ==
    IF s < 0 THEN 0 ELSE NSub(drawn, s) + NSubUpTo(drawn, s - 1)

\* Output position of input shell s, and the positions derived from it.
NewIndex(drawn, s) == s + NSubUpTo(drawn, s)
Derived(drawn, s) == (NewIndex(drawn, s) - NSub(drawn, s))..NewIndex(drawn, s)

\* (concentration, element, site) of the specifications at shell q, in order.
AtShell(specs, q) ==
    LET sel == SelectSeq(specs, LAMBDA t : t[1] = q)
    IN  [p \in 1..Len(sel) |-> <<sel[p][2], sel[p][3], sel[p][4]>>]

\* C14 (as claimed): the radii of the sub-shells of shell i lie strictly
\* between its inner and its outer bound and are pairwise distinct, and the
\* rebuilt shell list is strictly increasing whenever the input list is.
C14_SubRadiiInside ==
    AugReturned =>
        \A t \in 1..NAugments :
            LET cons == template.constraints
                out == new_templates.out.templates[t]
            IN  /\ \A i \in draws[t].constraints_to_subdivide :
                      LET radii == draws[t].radii[i]
                      IN  /\ \A j \in 1..Len(radii) :
                                /\ InnerBound(cons, i) < Round1(radii[j])
                                /\ Round1(radii[j]) < OuterBound(cons, i)
                          /\ \A j, k \in 1..Len(radii) :
                                j # k => Round1(radii[j]) # Round1(radii[k])
                /\ StrictlyIncreasing(cons) => StrictlyIncreasing(out.constraints)

ScenarioCDrawn ==
    [constraints_to_subdivide |-> {0}, n_divisions |-> (0 :> 2),
     radii |-> (0 :> <<200, 350>>)]

\* Scenario C: shells [5, 10], shell 0 subdivided at [2.0, 3.5].
ScenarioC ==
    /\ {200, 350} \subseteq Range(SubdivisionGrid(<<500, 1000>>, 0))
    /\ generate_single_augment(<<500, 1000>>, <<<<0, 15, "Yb", "Y">>>>, ScenarioCDrawn)
         = [status |-> "returned",
            constraints |-> <<200, 350, 500, 1000>>,
            dopant_specifications |-> <<<<0, 15, "Yb", "Y">>, <<1, 15, "Yb", "Y">>,
                                        <<2, 15, "Yb", "Y">>>>]

\* C15: dopant redistribution.  In every returned augment the specifications
\* of input shell s appear, with the same concentration, element and site and
\* each exactly as often as in the input, at every output position derived
\* from s (its sub-shells and the shell itself) and at no other position; a
\* shell that is not subdivided moves to s plus the number of sub-shells put
\* before it; a shell that became t shells carries t times its dopants; and
\* in scenario C the dopant of shell 0 appears at positions 0, 1 and 2.
C15_DopantRedistribution ==
    /\ ScenarioC
    /\ AugReturned =>
          \A t \in 1..NAugments :
              LET specs == template.dopant_specifications
                  out == new_templates.out.templates[t].dopant_specifications
              IN  /\ \A s \in Shells :
                        /\ \A q \in Derived(draws[t], s) :
                              AtShell(out, q) = AtShell(specs, s)
                        /\ NSub(draws[t], s) = 0 =>
                              Derived(draws[t], s) = {s + NSubUpTo(draws[t], s - 1)}
                        /\ Len(SelectSeq(out, LAMBDA u : u[1] \in Derived(draws[t], s)))
                              = (NSub(draws[t], s) + 1) * Len(AtShell(specs, s))
                  /\ \A p \in 1..Len(out) :
                        \E s \in Shells : out[p][1] \in Derived(draws[t], s)
                  /\ \A s1, s2 \in Shells :
                        s1 # s2 => Derived(draws[t], s1) \cap Derived(draws[t], s2) = {}

C15_Witness ==
    /\ AugReturned
    /\ new_templates.call = "generate_single_augment"
    /\ template = [constraints |-> <<20, 30>>,
                   dopant_specifications |-> <<<<0, 15, "Yb", "Y">>, <<1, 15, "Er", "Y">>>>]
    /\ draws[1].constraints_to_subdivide = {0}
    /\ draws[1].radii[0] = <<0, 10>>
    /\ new_templates.out.templates[1].dopant_specifications
         = <<<<0, 15, "Yb", "Y">>, <<1, 15, "Yb", "Y">>, <<2, 15, "Yb", "Y">>,
             <<3, 15, "Er", "Y">>>>

\* C16: shell count and order.  The output has c plus the number of sub-radii
\* drawn shells; every input shell is in it, in the input order, right after
\* its own sub-shells.
C16_ShellCount ==
    AugReturned =>
        \A t \in 1..NAugments :
            LET cons == template.constraints
                out == new_templates.out.templates[t].constraints
            IN  /\ Len(out) = Len(cons) + NSubUpTo(draws[t], Len(cons) - 1)
                /\ \A s \in Shells :
                      /\ out[NewIndex(draws[t], s) + 1] = cons[s + 1]
                      /\ \A j \in 1..NSub(draws[t], s) :
                            out[NewIndex(draws[t], s) - NSub(draws[t], s) + j]
                                = Round1(draws[t].radii[s][j])
                /\ \A s1, s2 \in Shells :
                      s1 < s2 => NewIndex(draws[t], s1) < NewIndex(draws[t], s2) - NSub(draws[t], s2)

C16_Witness ==
    /\ AugReturned
    /\ new_templates.call = "augment_template"
    /\ NAugments = 2
    /\ template.constraints = <<5, 25>>
    /\ draws[2].constraints_to_subdivide = {0, 1}
    /\ new_templates.out.templates[1].constraints = <<5, 0, 20, 25>>
    /\ new_templates.out.templates[2].constraints = <<0, 5, 0, 20, 25>>

ValidTemplate ==
    /\ Len(template.constraints) > 0
    /\ StrictlyIncreasing(template.constraints)
    /\ \A p \in 1..Len(template.dopant_specifications) :
          template.dopant_specifications[p][1] \in Shells

\* C17 (as claimed): augmentation is total.  For a non-empty strictly
\* increasing shell list with valid dopant indices every call returns,
\* whatever the generator draws.
C17_Total ==
    (Augmented /\ ValidTemplate) => new_templates.out.status = "returned"

---------------------------------------------------------------------------
(* Properties of seeded augmenters (checked under SpecSeeded).             *)

\* The first n calls made on the two instances were given the same inputs.
SameCalls(i1, i2, n) ==
    /\ n <= Len(history[i1])
    /\ n <= Len(history[i2])
    /\ \A u \in 1..n : history[i1][u].input = history[i2][u].input

\* C18: seeded reproducibility.  Two instances built with the same
\* random_seed and given the same sequence of calls return equal outputs,
\* whatever calls are made on other instances in between.
C18_SeededReproducibility ==
    \A i1, i2 \in Instances :
        seeds[i1] = seeds[i2] =>
            \A n \in 1..MaxCalls :
                SameCalls(i1, i2, n) => history[i1][n].out = history[i2][n].out

C18_Witness ==
    /\ seeds["a"] = seeds["b"]
    /\ SameCalls("a", "b", 2)
    /\ history["a"][1].input = history["a"][2].input
    /\ history["a"][1].input[1] = "augment_template"
    /\ history["a"][1].out.status = "returned"
    /\ history["a"][1].out.templates[1] # history["a"][1].out.templates[2]
    /\ history["a"][1].out # history["a"][2].out
    /\ history["b"][2].out = history["a"][2].out

---------------------------------------------------------------------------
(* InteractionData: the rules by which torch_geometric concatenates a list *)
(* of graphs into one batch.  For every key the values of the graphs are    *)
(* joined along __cat_dim__, each first raised by the sum of the __inc__   *)
(* of the graphs before it.                                                *)

MaxBatch == 3          \* most graphs concatenated into one batch

\* The keys of a graph, by the words they are made of: 'index' in key is a
\* test on these words.
KeyWords ==
    [x_dopant |-> <<"x", "dopant">>,
     types |-> <<"types">>,
     radii_dopant |-> <<"radii", "dopant">>,
     node_dopant_index |-> <<"node", "dopant", "index">>,
     edge_index |-> <<"edge", "index">>]
Keys == DOMAIN KeyWords
InKey(word, key) == word \in Range(KeyWords[key])

\* Data.num_nodes: nothing sets it, so it is read off the first tensor whose
\* key holds 'node', along its __cat_dim__: the rows of node_dopant_index.
num_nodes(data) == Len(data.node_dopant_index)

\* int(value.max()) of a 1-D tensor
RECURSIVE TensorMax(_)
TensorMax(value) ==
    IF Len(value) = 1 THEN value[1] ELSE Max(value[1], TensorMax(Tail(value)))

\* InteractionData.__cat_dim__ (no value is a SparseTensor)
__cat_dim__(key) ==
    IF key = "node_dopant_index" THEN 0
    ELSE IF InKey("index", key) \/ key = "face" THEN -1
    ELSE 0

\* Faulty variant: node_dopant_index falls under the rule of the other
\* index keys.
__inc___NodeCount(data, key, value) ==
    IF InKey("batch", key) THEN TensorMax(value) + 1
    ELSE IF InKey("index", key) \/ key = "face" THEN num_nodes(data)
    ELSE 0

\* InteractionData.__inc__
__inc__(data, key, value) ==
    IF InKey("batch", key) THEN TensorMax(value) + 1
    ELSE IF key = "node_dopant_index" THEN Len(data.x_dopant)
    ELSE IF InKey("index", key) \/ key = "face" THEN num_nodes(data)
    ELSE 0

\* value + inc on a 2-D tensor, done only when the increment is not 0
Offset(value, by) ==
    IF by = 0 THEN value
    ELSE [r \in 1..Len(value) |-> [c \in 1..Len(value[r]) |-> value[r][c] + by]]

\* torch.cat([a, b], dim): rows after rows for dim 0, columns after columns
\* for the last dimension of a 2-D tensor
Cat(a, b, dim) ==
    IF dim = 0 THEN a \o b
    ELSE [r \in 1..Len(a) |-> a[r] \o b[r]]

\* The batch of list[1..g]: acc joined with graph g, incs holding per key
\* the sum of the increments of the graphs before g.
RECURSIVE Collate(_, _, _, _)
Collate(list, g, incs, acc) ==
    IF g > Len(list) THEN acc
    ELSE LET data == list[g]
             joined == [key \in Keys |->
                           IF g = 1 THEN Offset(data[key], incs[key])
                           ELSE Cat(acc[key], Offset(data[key], incs[key]),
                                    __cat_dim__(key))]
             summed == [key \in Keys |-> incs[key] + __inc__(data, key, data[key])]
         IN  Collate(list, g + 1, summed, joined)

\* The graphs that are batched: one to MaxDopants dopants in two shells.
BatchSpecs(k, x) ==
    [d \in 1..k |-> <<(d - 1) % 2, x + d, possible_elements[((d - 1) % 3) + 1], "Y">>]
BatchGraphs ==
    {get_data_graph(<<5, 10>>, BatchSpecs(k, 10)) : k \in 1..MaxDopants}
        \cup {get_data_graph(<<5, 10>>, BatchSpecs(k, 20)) : k \in 1..2}

InitBatch ==
    /\ data_list \in SeqsUpTo(BatchGraphs, MaxBatch) \ {<<>>}
    /\ batch = Pending
    /\ InitLabelIdle
    /\ InitGraphIdle
    /\ InitAugmentIdle
    /\ InitSeededIdle

\* The loader concatenates data_list into one batch.
Batch ==
    /\ batch = Pending
    /\ batch' = [status |-> "returned",
                 out |-> Collate(data_list, 1, [key \in Keys |-> 0],
                                 [key \in Keys |-> <<>>])]
    /\ UNCHANGED <<data_list, labelVars, graphVars, augmentVars, seededVars>>

NextBatch == Batch

SpecBatch == InitBatch /\ [][NextBatch]_vars

---------------------------------------------------------------------------
(* Properties of the batching (checked under SpecBatch).                   *)

Batched == batch # Pending

\* Dopants, nodes and edges of the graphs before graph g of data_list.
RECURSIVE DopantsBefore(_)
DopantsBefore(g) ==
    IF g = 1 THEN 0 ELSE DopantsBefore(g - 1) + Len(data_list[g - 1].x_dopant)

RECURSIVE NodesBefore(_)
NodesBefore(g) ==
    IF g = 1 THEN 0 ELSE NodesBefore(g - 1) + Len(data_list[g - 1].types)

RECURSIVE EdgesBefore(_)
EdgesBefore(g) ==
    IF g = 1 THEN 0 ELSE EdgesBefore(g - 1) + Len(data_list[g - 1].edge_index[1])

\* C20: batching keeps indices valid.  In the batch the edge_index entries of
\* graph g are its own raised by the number of nodes of the graphs before it
\* and its node_dopant_index entries are its own raised by the number of
\* x_dopant rows before it; every index of graph g points into the rows of
\* graph g, at the node or dopant it pointed at before; and x_dopant, types
\* and radii_dopant, whose keys hold neither 'batch' nor 'index', are joined
\* with increment 0.
C20_BatchingKeepsIndices ==
    Batched =>
        \A g \in 1..Len(data_list) :
            LET data == data_list[g]
                k == Len(data.x_dopant)
                n == Len(data.types)
                d0 == DopantsBefore(g)
                n0 == NodesBefore(g)
                e0 == EdgesBefore(g)
            IN  /\ \A t \in 1..n : \A c \in 1..2 :
                      LET own == data.node_dopant_index[t][c]
                          new == batch.out.node_dopant_index[n0 + t][c]
                      IN  /\ new = own + d0
                          /\ new \in d0..(d0 + k - 1)
                          /\ batch.out.x_dopant[new + 1] = data.x_dopant[own + 1]
                          /\ batch.out.radii_dopant[new + 1] = data.radii_dopant[own + 1]
                /\ \A e \in 1..Len(data.edge_index[1]) : \A r \in 1..2 :
                      LET own == data.edge_index[r][e]
                          new == batch.out.edge_index[r][e0 + e]
                      IN  /\ new = own + n0
                          /\ new \in n0..(n0 + n - 1)
                          /\ batch.out.types[new + 1] = data.types[own + 1]
                /\ \A key \in {"x_dopant", "types", "radii_dopant"} :
                      /\ ~InKey("batch", key) /\ ~InKey("index", key) /\ key # "face"
                      /\ __inc__(data, key, data[key]) = 0
                /\ SubSeq(batch.out.x_dopant, d0 + 1, d0 + k) = data.x_dopant
                /\ SubSeq(batch.out.types, n0 + 1, n0 + n) = data.types
                /\ SubSeq(batch.out.radii_dopant, d0 + 1, d0 + k) = data.radii_dopant

C20_Witness ==
    /\ Batched
    /\ Len(data_list) = 3
    /\ Len(data_list[1].x_dopant) = 2
    /\ Len(data_list[2].x_dopant) = 3
    /\ Len(data_list[3].x_dopant) = 1
    /\ batch.out.node_dopant_index[14] = <<5, 5>>
    /\ batch.out.edge_index[1][Len(batch.out.edge_index[1])] = 13
    /\ Len(batch.out.x_dopant) = 6

====
